---- MODULE Spec2Model ----
(***************************************************************************)
(* Session orchestration core of Sunny AI: the web handlers of             *)
(* src/web/app.py, SunnyAIController (src/controller.py) and the           *)
(* MeetingRecorder it owns (src/meeting_bot/recorder.py), with the audio   *)
(* capture and the joiner as far as the recorder drives them.              *)
(*                                                                         *)
(* Everything runs on one asyncio event loop: a step of the model is the   *)
(* code a task executes between two suspension points (an await that       *)
(* really yields).  An "async def" that contains no yielding await runs    *)
(* inside the step of its caller.                                          *)
(***************************************************************************)
EXTENDS Integers, Sequences, FiniteSets, TLC

\* ------------------------------------------------------------- bounds
MaxSessions == 2        \* start_session calls in one process
MaxStops == 2           \* POST stop requests in one run
MaxKeyChanges == 1      \* set_api_key calls that replace the controller
MaxFaults == 1          \* provider / device failures in one run
MaxCalls == 2           \* handler calls suspended at the same time
MaxTranscribed == 1     \* sessions whose transcriber call returns in one run
MaxQueries == 2         \* GET status requests in one run

\* What the environment does in one run: how many requests of each kind
\* arrive, how many provider or device calls fail, how many transcriber
\* calls return.  A run is explored under one of these budgets.
Solo ==
    [ name |-> "solo", sessions |-> MaxSessions - 1, stops |-> MaxStops,
      keys |-> MaxKeyChanges, faults |-> MaxFaults,
      transcribed |-> MaxTranscribed, queries |-> 0 ]
PairStop ==
    [ name |-> "pair-stop", sessions |-> MaxSessions, stops |-> MaxStops - 1,
      keys |-> 0, faults |-> 0, transcribed |-> 0, queries |-> 0 ]
PairKey ==
    [ name |-> "pair-key", sessions |-> MaxSessions, stops |-> 0,
      keys |-> MaxKeyChanges, faults |-> 0, transcribed |-> 0, queries |-> 0 ]
Query ==
    [ name |-> "query", sessions |-> MaxSessions - 1, stops |-> MaxStops - 1,
      keys |-> 0, faults |-> 0, transcribed |-> MaxTranscribed,
      queries |-> MaxQueries ]
Scenarios == {Solo, PairStop, PairKey, Query}

\* What can be installed (chromadb for the memory, pyannote for the
\* diarizer); it matters to the processing pipeline only.
Installs(b) ==
    IF b.transcribed > 0 THEN [memory : BOOLEAN, pyannote : BOOLEAN]
    ELSE {[memory |-> FALSE, pyannote |-> FALSE]}

Keys == {"k1", "k2"}    \* values of GEMINI_API_KEY
NotFound == [found |-> FALSE]     \* get_session_status returning None

\* The meetings table when the process starts: ./data/meetings.db outlives
\* a process, so it is empty or holds rows of earlier runs (uid 0).  What
\* is there matters to the answers of GET status only.
StoredBefore(b) ==
    IF b.queries > 0
    THEN {<< >>, <<[uid |-> 0, email_sent |-> FALSE]>>}
    ELSE {<< >>}

VARIABLES
    controller,   \* web.app global `controller`: index into ctl
    apiKey,       \* os.environ["GEMINI_API_KEY"]
    ctl,          \* the SunnyAIController objects ever constructed
    ms,           \* the MeetingSession objects ever constructed
    mon,          \* the _monitor_meeting tasks ever created
    calls,        \* handler calls suspended inside an await
    files,        \* audio files that exist on disk
    nfiles,       \* audio file names handed out so far
    db,           \* rows of the meetings table
    env,          \* what is installed: [memory, pyannote]
    budget,       \* the environment's budget of events for this run
    reply,        \* the answer to the latest GET status / POST stop request
    nqueries,     \* GET status requests so far
    nstarts,      \* start_session calls so far (request identity)
    nstops,       \* stop_session calls on registered sessions so far
    nkeys,        \* controller replacements so far
    faults,       \* failures injected so far
    now,          \* seconds since the recording of the timed session began
    cfg,          \* meeting config of the timed run: max_duration, interval
    rec_state,    \* MeetingSession.state of the timed session
    watch,        \* the _monitor_meeting task of the timed session
    drive,        \* the _run_session task of the timed session
    host,         \* what the meeting's host does with the admission request
    elapsed       \* the local `elapsed` of _wait_for_admission

\* What the timed specifications move, and what Spec moves.
timed == <<now, cfg, rec_state, watch, drive, host, elapsed>>
untimed == <<controller, apiKey, ctl, ms, mon, calls, files, nfiles, db, env,
             budget, reply, nqueries, nstarts, nstops, nkeys, faults>>

vars == <<untimed, timed>>

\* Fixed for the life of the process; the steps of Spec have no clock and
\* leave the timed variables alone.
fixed == <<env, budget, timed>>

\* ------------------------------------------------------------- objects

\* SunnyAIController.__init__: a fresh recorder, audio capture and joiner,
\* an empty registry and a counter of 0.
NewController ==
    [ sessions        |-> << >>,     \* _sessions, ids 1..session_counter
      session_counter |-> 0,         \* _session_counter
      rsession        |-> 0,         \* recorder.session (0 = None)
      mtask           |-> 0,         \* recorder._monitoring_task (0 = None)
      recording       |-> FALSE,     \* audio_capture._recording
      current_file    |-> 0,         \* audio_capture._current_file
      browser         |-> "none",    \* joiner.browser: none | open | closed
      in_meeting      |-> FALSE ]    \* joiner.is_in_meeting

\* The dict start_session stores in _sessions, with the position of the
\* session's driving task (pc) and the identity of the request (uid).
NewSession(id, uid, send) ==
    [ id |-> id, uid |-> uid, send_email |-> send,
      status |-> "starting", meeting_session |-> 0,
      transcript |-> "none", diarization |-> "none",
      topics |-> "none", sentiment |-> "none", summary |-> "none",
      action_items |-> "none", analytics |-> "none", pdf_path |-> "none",
      db_record_id |-> 0, memory |-> "none", followup_email |-> "none",
      email |-> "none", error |-> "none", pc |-> "new" ]

\* MeetingSession(meeting_url, platform, state=JOINING)
NewMeetingSession ==
    [ state |-> "JOINING", audio_file |-> 0, started |-> FALSE,
      ended |-> 0, error_message |-> "none" ]

\* MeetingRecorder.is_active
is_active(c) ==
    c.rsession # 0 /\ ms[c.rsession].state = "RECORDING"

Terminal == {"completed", "error", "stopped"}

\* ------------------------------------------------------------- recorder
\* The objects a step of the recorder reads and writes, as one value.
World == [ctl |-> ctl, ms |-> ms, mon |-> mon, files |-> files]

Sess(g, id) == ctl[g].sessions[id]

SessionRefs == {<<g, id>> \in (1..Len(ctl)) \X (1..MaxSessions) :
                    id \in DOMAIN ctl[g].sessions}

\* asyncio Task.cancel() on monitor task k.  A task suspended in sleep or in
\* the end probe ends with CancelledError; one suspended in end_session at
\* "await self._monitoring_task" catches it there and goes on; one suspended
\* in joiner.leave_meeting is torn out of it, the browser closed already (br
\* = "closed") or not yet (br = "open").
cancel(W, k, br) ==
    LET m == W.mon[k] IN
    IF m.pc \in {"new", "sleep", "probe"} THEN [W EXCEPT !.mon[k].pc = "done"]
    ELSE IF m.pc = "es_wait" THEN [W EXCEPT !.mon[k].target = k]
    ELSE IF m.pc = "es_leave"
         THEN [W EXCEPT !.mon[k].pc = "done", !.ctl[m.g].browser = br]
    ELSE W

\* AudioCapture.stop_recording as end_session calls it: _recording is
\* cleared and the file is written (saved) or not (no data, write error).
\* Its return value is dropped by end_session.
stop_recording(W, g, saved) ==
    IF W.ctl[g].recording
    THEN [W EXCEPT !.ctl[g].recording = FALSE,
                   !.files = IF saved THEN @ \cup {W.ctl[g].current_file}
                             ELSE @]
    ELSE W

\* end_session up to its first suspension, run by thread `self` (a monitor
\* index, or 0 for a handler).  pc is where the thread is afterwards:
\*   "ret"      end_session returned (no session)
\*   "es_wait"  suspended in "await self._monitoring_task" (target)
\*   "es_leave" suspended in "await self.joiner.leave_meeting()"
end_session_enter(W, g, self, br, saved) ==
    LET t == W.ctl[g].mtask IN
    IF W.ctl[g].rsession = 0 THEN [w |-> W, pc |-> "ret", target |-> 0]
    ELSE IF t # 0 /\ t = self THEN [w |-> W, pc |-> "es_wait", target |-> t]
    ELSE IF t # 0 /\ W.mon[t].pc # "done"
         THEN [w |-> cancel(W, t, br), pc |-> "es_wait", target |-> t]
    ELSE [w |-> stop_recording(W, g, saved), pc |-> "es_leave", target |-> 0]

\* end_session after leave_meeting returned: the browser is closed, and the
\* recorder's CURRENT session gets end_time and state ENDED.
end_session_finish(W, g) ==
    LET rs == W.ctl[g].rsession IN
    [W EXCEPT !.ctl[g].browser = "closed",
              !.ctl[g].in_meeting = FALSE,
              !.ms[rs].ended = @ + 1,
              !.ms[rs].state = "ENDED"]

\* The choices a step that may run stop_recording / cancel really has.
SaveChoices(W, g, self) ==
    LET t == W.ctl[g].mtask
        direct == ~(t # 0 /\ (t = self \/ W.mon[t].pc # "done"))
    IN IF direct /\ W.ctl[g].recording /\ faults < budget.faults
       THEN BOOLEAN ELSE {TRUE}

ResumeSaveChoices(g) ==
    IF ctl[g].recording /\ faults < budget.faults THEN BOOLEAN ELSE {TRUE}

BrowserChoices(W, g, self) ==
    LET t == W.ctl[g].mtask IN
    IF t # 0 /\ t # self /\ W.mon[t].pc = "es_leave"
    THEN {"open", "closed"} ELSE {"closed"}

Fault(b) == IF b THEN faults + 1 ELSE faults

Put(W) ==
    /\ ctl' = W.ctl
    /\ ms' = W.ms
    /\ mon' = W.mon
    /\ files' = W.files

\* A suspended wait for the monitoring task can go on.
CanResume(target, self) == target = self \/ mon[target].pc = "done"

\* ------------------------------------------------------------- monitor task

\* _monitor_meeting, first step: the loop test, then asyncio.sleep.
monitor_start(k) ==
    /\ mon[k].pc = "new"
    /\ mon' = [mon EXCEPT ![k].pc =
                 IF is_active(ctl[mon[k].g]) THEN "sleep" ELSE "done"]
    /\ UNCHANGED <<controller, apiKey, ctl, ms, calls, files, nfiles, db,
                   fixed, reply, nqueries, nstarts, nstops, nkeys, faults>>

\* The monitor thread k calls end_session.
monitor_end(k) ==
    LET g == mon[k].g IN
    \E br \in BrowserChoices(World, g, k), saved \in SaveChoices(World, g, k) :
      LET r == end_session_enter(World, g, k, br, saved) IN
      /\ Put([r.w EXCEPT !.mon[k].pc = r.pc, !.mon[k].target = r.target])
      /\ faults' = Fault(~saved)

\* Woken from asyncio.sleep(end_detection_interval): the max-duration test
\* (elapsed >= max_duration is the input maxed), then the end probe.
monitor_tick(k, maxed) ==
    /\ mon[k].pc = "sleep"
    /\ IF maxed
       THEN monitor_end(k)
       ELSE /\ mon' = [mon EXCEPT ![k].pc = "probe"]
            /\ UNCHANGED <<ctl, ms, files, faults>>
    /\ UNCHANGED <<controller, apiKey, calls, nfiles, db, fixed, reply,
                   nqueries, nstarts, nstops, nkeys>>

\* What the end probe comes to: the meeting ended, it is running, or a
\* call to the page raised (caught in _check_meeting_ended, or by the
\* monitor, and taken as not ended).
ProbeResults == {"ended", "running", "raise"}

\* _check_meeting_ended returned: ended only from a page that is still open
\* (on a closed page every query raises, which the probe turns into False).
monitor_probe(k, res) ==
    /\ mon[k].pc = "probe"
    /\ res = "ended" => ctl[mon[k].g].browser = "open"
    /\ IF res = "ended"
       THEN monitor_end(k)
       ELSE /\ mon' = [mon EXCEPT ![k].pc =
                         IF is_active(ctl[mon[k].g]) THEN "sleep" ELSE "done"]
            /\ UNCHANGED <<ctl, ms, files, faults>>
    /\ UNCHANGED <<controller, apiKey, calls, nfiles, db, fixed, reply,
                   nqueries, nstarts, nstops, nkeys>>

\* end_session in the monitor, after "await self._monitoring_task".
monitor_es_resume(k) ==
    /\ mon[k].pc = "es_wait"
    /\ CanResume(mon[k].target, k)
    /\ \E saved \in ResumeSaveChoices(mon[k].g) :
         /\ Put([stop_recording(World, mon[k].g, saved)
                    EXCEPT !.mon[k].pc = "es_leave", !.mon[k].target = 0])
         /\ faults' = Fault(~saved)
    /\ UNCHANGED <<controller, apiKey, calls, nfiles, db, fixed, reply,
                   nqueries, nstarts, nstops, nkeys>>

\* end_session in the monitor, after leave_meeting; then "break".
monitor_es_left(k) ==
    /\ mon[k].pc = "es_leave"
    /\ Put([end_session_finish(World, mon[k].g) EXCEPT !.mon[k].pc = "done"])
    /\ UNCHANGED <<controller, apiKey, calls, nfiles, db, fixed, reply,
                   nqueries, nstarts, nstops, nkeys, faults>>


\* ------------------------------------------------------------- controller

IdleCall == [kind |-> "none", g |-> 0, id |-> 0, pc |-> "idle", target |-> 0]

FreeSlots == {c \in 1..MaxCalls : calls[c].pc = "idle"}

\* The slot a newly suspended handler call takes.
NewSlot == CHOOSE c \in FreeSlots : \A d \in FreeSlots : c <= d

\* start_session awaiting the first step of the driving task instead of
\* creating the task: the session is handed back in "joining", the join
\* under way.
start_session_joins(send) ==
    LET g  == controller
        id == ctl[g].session_counter + 1
    IN
    /\ nstarts < budget.sessions
    /\ nstarts' = nstarts + 1
    /\ ms' = Append(ms, NewMeetingSession)
    /\ ctl' = [ctl EXCEPT ![g].session_counter = id,
                          ![g].sessions =
                              (id :> [NewSession(id, nstarts + 1, send)
                                        EXCEPT !.status = "joining",
                                               !.pc = "join"]) @@ @,
                          ![g].rsession = Len(ms) + 1,
                          ![g].browser = IF @ = "none" THEN "open" ELSE @]
    /\ UNCHANGED <<controller, apiKey, mon, calls, files, nfiles, db, fixed,
                   reply, nqueries, nstops, nkeys, faults>>

\* start_session with the increment of _session_counter left out.
start_session_reuses(send) ==
    LET g  == controller
        id == ctl[g].session_counter
    IN
    /\ nstarts < budget.sessions
    /\ nstarts' = nstarts + 1
    /\ ctl' = [ctl EXCEPT ![g].session_counter = id,
                          ![g].sessions =
                              (id :> NewSession(id, nstarts + 1, send)) @@ @]
    /\ UNCHANGED <<controller, apiKey, ms, mon, calls, files, nfiles, db,
                   fixed, reply, nqueries, nstops, nkeys, faults>>

\* SunnyAIController.start_session, as POST /api/meetings/join calls it on
\* the current controller: no await inside, so it is one step.
start_session(send) ==
    LET g  == controller
        id == ctl[g].session_counter + 1
    IN
    /\ nstarts < budget.sessions
    /\ nstarts' = nstarts + 1
    /\ ctl' = [ctl EXCEPT ![g].session_counter = id,
                          ![g].sessions =
                              (id :> NewSession(id, nstarts + 1, send)) @@ @]
    /\ UNCHANGED <<controller, apiKey, ms, mon, calls, files, nfiles, db,
                   fixed, reply, nqueries, nstops, nkeys, faults>>

\* _run_session, first step of the driving task: status "joining", then
\* recorder.start_session up to "await self.joiner.join_meeting(url)".  The
\* recorder's session is REPLACED by a new MeetingSession.
run_session_begin(g, id) ==
    /\ <<g, id>> \in SessionRefs
    /\ Sess(g, id).pc = "new"
    /\ ms' = Append(ms, NewMeetingSession)
    /\ ctl' = [ctl EXCEPT ![g].sessions[id].status = "joining",
                          ![g].sessions[id].pc = "join",
                          ![g].rsession = Len(ms) + 1,
                          ![g].browser = IF @ = "none" THEN "open" ELSE @]
    /\ UNCHANGED <<controller, apiKey, mon, calls, files, nfiles, db, fixed,
                   reply, nqueries, nstarts, nstops, nkeys, faults>>

\* A failed join whose ERROR state _run_session does not look at: the task
\* goes on to "recording" and waits.
join_failed_unchecked(g, id) ==
    LET rs == ctl[g].rsession IN
    /\ ms' = [ms EXCEPT ![rs].state = "ERROR",
                        ![rs].error_message = "Failed to join meeting"]
    /\ ctl' = [ctl EXCEPT ![g].sessions[id].meeting_session = rs,
                          ![g].sessions[id].status = "recording",
                          ![g].sessions[id].pc = "wait"]
    /\ UNCHANGED <<mon, nfiles, faults>>

\* join_meeting returned False (or start_session caught an exception): the
\* recorder's current session gets ERROR, and _run_session records the error.
join_failed(g, id) ==
    LET rs == ctl[g].rsession IN
    /\ ms' = [ms EXCEPT ![rs].state = "ERROR",
                        ![rs].error_message = "Failed to join meeting"]
    /\ ctl' = [ctl EXCEPT ![g].sessions[id].meeting_session = rs,
                          ![g].sessions[id].status = "error",
                          ![g].sessions[id].error = "Failed to join meeting",
                          ![g].sessions[id].pc = "done"]
    /\ UNCHANGED <<mon, nfiles, faults>>

\* join_meeting returned True: IN_MEETING, audio_capture.start_recording
\* (which hands back the file of a recording already in progress), RECORDING,
\* a new monitoring task; _run_session sets "recording" and starts to wait.
\* rec_ok = FALSE: opening the input stream raised.
join_succeeded(g, id, rec_ok) ==
    LET rs   == ctl[g].rsession
        busy == ctl[g].recording
        file == IF busy THEN ctl[g].current_file ELSE nfiles + 1
    IN
    /\ nfiles' = IF busy THEN nfiles ELSE nfiles + 1
    /\ faults' = Fault(~rec_ok)
    /\ IF rec_ok
       THEN /\ ms' = [ms EXCEPT ![rs].started = TRUE,
                                ![rs].audio_file = file,
                                ![rs].state = "RECORDING"]
            /\ mon' = Append(mon, [g |-> g, pc |-> "new", target |-> 0])
            /\ ctl' = [ctl EXCEPT ![g].in_meeting = TRUE,
                                  ![g].recording = TRUE,
                                  ![g].current_file = file,
                                  ![g].mtask = Len(mon) + 1,
                                  ![g].sessions[id].meeting_session = rs,
                                  ![g].sessions[id].status = "recording",
                                  ![g].sessions[id].pc = "wait"]
       ELSE /\ ms' = [ms EXCEPT ![rs].started = TRUE,
                                ![rs].state = "ERROR",
                                ![rs].error_message = "audio device error"]
            /\ mon' = mon
            /\ ctl' = [ctl EXCEPT ![g].in_meeting = TRUE,
                                  ![g].current_file = file,
                                  ![g].sessions[id].meeting_session = rs,
                                  ![g].sessions[id].status = "error",
                                  ![g].sessions[id].error =
                                      "audio device error",
                                  ![g].sessions[id].pc = "done"]

\* The driving task resumes from join_meeting.  A join succeeds only on a
\* page that is still open; start_recording can fail only when it really
\* opens a stream.
run_session_joined(g, id, joined, rec_ok) ==
    /\ <<g, id>> \in SessionRefs
    /\ Sess(g, id).pc = "join"
    /\ joined => ctl[g].browser = "open"
    /\ ~rec_ok => joined /\ ~ctl[g].recording /\ faults < budget.faults
    /\ IF joined THEN join_succeeded(g, id, rec_ok) ELSE join_failed(g, id)
    /\ UNCHANGED <<controller, apiKey, calls, files, db, fixed, reply,
                   nqueries, nstarts, nstops, nkeys>>

\* The wait loop ends and _process_recording goes to the transcriber
\* without looking for the audio file.
run_session_wake_unchecked(g, id) ==
    /\ <<g, id>> \in SessionRefs
    /\ Sess(g, id).pc = "wait"
    /\ ~is_active(ctl[g])
    /\ ctl' = [ctl EXCEPT ![g].sessions[id].status = "transcribing",
                          ![g].sessions[id].pc = "transcribe"]
    /\ UNCHANGED <<controller, apiKey, ms, mon, calls, files, nfiles, db,
                   fixed, reply, nqueries, nstarts, nstops, nkeys, faults>>

\* "while self.recorder.is_active: await asyncio.sleep(5)" ends; status
\* "processing"; _process_recording up to the await of the transcriber, or
\* to its return when the session's audio file is missing.
run_session_wake(g, id) ==
    LET m == Sess(g, id).meeting_session
        audio == ms[m].audio_file # 0 /\ ms[m].audio_file \in files
    IN
    /\ <<g, id>> \in SessionRefs
    /\ Sess(g, id).pc = "wait"
    /\ ~is_active(ctl[g])
    /\ ctl' = IF audio
              THEN [ctl EXCEPT ![g].sessions[id].status = "transcribing",
                               ![g].sessions[id].pc = "transcribe"]
              ELSE [ctl EXCEPT ![g].sessions[id].status = "error",
                               ![g].sessions[id].error =
                                   "No audio file recorded",
                               ![g].sessions[id].pc = "done"]
    /\ UNCHANGED <<controller, apiKey, ms, mon, calls, files, nfiles, db,
                   fixed, reply, nqueries, nstarts, nstops, nkeys, faults>>


\* ------------------------------------------------------------- pipeline
\* The stages run in the driving task.  A step goes from the return of one
\* provider call that really suspends to the next such call; the stages in
\* between that never yield (sentiment analysis, analytics, the PDF, the
\* memory store, and diarization / topic segmentation when they fall back)
\* run inside the step.  A transcript is "full" (segments, at least 100
\* characters) or "empty" (no segments, shorter).

\* An exception that no handler catches: the task ends where it is.
fail_uncaught(s, msg) == [s EXCEPT !.pc = "done"]

\* "except Exception as e": status error, error str(e); the task ends.
fail(s, msg) == [s EXCEPT !.status = "error", !.error = msg, !.pc = "done"]

\* SentimentAnalyzer.analyze never yields.  With transcript segments it
\* calls seg.get(...) on TranscriptionSegment objects, the AttributeError is
\* caught by analyze and the default SentimentResult comes back.
sentiment_result(s) == IF s.transcript = "full" THEN "default" ELSE "real"

\* The call of step 6 made with step 5 left out.
to_summarize_unanalyzed(s) ==
    [s EXCEPT !.status = "summarizing", !.pc = "summarize"]

\* Step 5 and the call of step 6: sentiment, then summarize_transcript.
to_summarize(s) ==
    [s EXCEPT !.sentiment = sentiment_result(s),
              !.status = "summarizing", !.pc = "summarize"]

\* Step 4: segment_topics returns the default at once for a short
\* transcript, and asks the LLM otherwise.
to_topics(s) ==
    IF s.transcript = "empty"
    THEN to_summarize([s EXCEPT !.topics = "default"])
    ELSE [s EXCEPT !.status = "segmenting_topics", !.pc = "topics"]

\* The diarization result is stored; with diarization segments and
\* transcript segments align_with_transcript runs and raises AttributeError
\* (trans_seg.get on a TranscriptionSegment), which ends the session.
after_diarize(s, dres) ==
    IF dres = "real" /\ s.transcript = "full"
    THEN fail([s EXCEPT !.diarization = dres, !.status = "diarizing"],
              "AttributeError")
    ELSE to_topics([s EXCEPT !.diarization = dres])

\* Step 3: diarize suspends in the pyannote pipeline when it is loaded and
\* returns the fallback DiarizationResult at once when it is not.
to_diarize(s) ==
    IF env.pyannote
    THEN [s EXCEPT !.status = "diarizing", !.pc = "diarize"]
    ELSE after_diarize(s, "default")

\* Steps 12 and 13 after the follow-up email is generated.
after_followup(s, fres) ==
    IF s.send_email
    THEN [s EXCEPT !.followup_email = fres,
                   !.status = "sending_email", !.pc = "send"]
    ELSE [s EXCEPT !.followup_email = fres,
                   !.status = "completed", !.pc = "done"]

\* Step 11 and the call of step 12: the memory store runs only when the
\* memory is initialized, never yields, and its exceptions are not caught.
after_save(s, rid, mem_ok) ==
    LET s1 == [s EXCEPT !.db_record_id = rid] IN
    IF env.memory /\ ~mem_ok
    THEN fail([s1 EXCEPT !.status = "storing_memory"], "memory store failed")
    ELSE [s1 EXCEPT !.memory = IF env.memory THEN "stored" ELSE "none",
                    !.status = "generating_followup", !.pc = "followup"]

\* Steps 8 to 10 after the action items: analytics, the PDF (its exceptions
\* are not caught), then the call of storage.save_meeting.
after_extract(s, ares, pdf_ok) ==
    LET s1 == [s EXCEPT !.action_items = ares, !.analytics = "real",
                        !.status = "generating_pdf"] IN
    IF pdf_ok THEN [s1 EXCEPT !.pdf_path = "pdf", !.pc = "save"]
    ELSE fail(s1, "pdf generation failed")

\* Failures among the outcomes a step draws, and the run's budget of them.
F(b) == IF b THEN 1 ELSE 0
Budget(n) == faults + n <= budget.faults

PipelineFrame ==
    UNCHANGED <<controller, apiKey, ms, mon, calls, files, nfiles, fixed,
                reply, nqueries, nstarts, nstops, nkeys>>

AtStage(g, id, pc) == <<g, id>> \in SessionRefs /\ Sess(g, id).pc = pc

SetSess(g, id, s) == ctl' = [ctl EXCEPT ![g].sessions[id] = s]

\* The sessions whose call of the transcriber has returned or raised.
Transcribed ==
    {r \in SessionRefs : \/ Sess(r[1], r[2]).transcript # "none"
                         \/ Sess(r[1], r[2]).error = "transcription failed"}

\* The transcriber's exception recorded but treated like a fail-soft
\* stage's: the pipeline goes on with an empty transcript.
process_transcribed_goes_on(g, id, res) ==
    /\ AtStage(g, id, "transcribe")
    /\ Cardinality(Transcribed) < budget.transcribed
    /\ Budget(F(res = "raise"))
    /\ faults' = faults + F(res = "raise")
    /\ SetSess(g, id,
         IF res = "raise"
         THEN [to_diarize([Sess(g, id) EXCEPT !.transcript = "empty"])
                 EXCEPT !.error = "transcription failed"]
         ELSE to_diarize([Sess(g, id) EXCEPT !.transcript = res]))
    /\ db' = db
    /\ PipelineFrame

\* transcriber.transcribe returned (res = "full" / "empty") or raised.
process_transcribed(g, id, res) ==
    /\ AtStage(g, id, "transcribe")
    /\ Cardinality(Transcribed) < budget.transcribed
    /\ Budget(F(res = "raise"))
    /\ faults' = faults + F(res = "raise")
    /\ SetSess(g, id,
         IF res = "raise" THEN fail(Sess(g, id), "transcription failed")
         ELSE to_diarize([Sess(g, id) EXCEPT !.transcript = res]))
    /\ db' = db
    /\ PipelineFrame

\* diarize letting the exception of the pyannote pipeline out.
process_diarized_fatal(g, id, dres) ==
    /\ AtStage(g, id, "diarize")
    /\ Budget(F(dres = "default"))
    /\ faults' = faults + F(dres = "default")
    /\ SetSess(g, id,
         IF dres = "default"
         THEN fail([Sess(g, id) EXCEPT !.status = "diarizing"],
                   "diarization failed")
         ELSE after_diarize(Sess(g, id), dres))
    /\ db' = db
    /\ PipelineFrame

\* diarizer.diarize returned from the pyannote pipeline: its result, or the
\* fallback result when the pipeline raised.
process_diarized(g, id, dres) ==
    /\ AtStage(g, id, "diarize")
    /\ Budget(F(dres = "default"))
    /\ faults' = faults + F(dres = "default")
    /\ SetSess(g, id, after_diarize(Sess(g, id), dres))
    /\ db' = db
    /\ PipelineFrame

\* topic_segmenter.segment_topics returned: topics, or the default result
\* when it failed.
process_topics(g, id, tres) ==
    /\ AtStage(g, id, "topics")
    /\ Budget(F(tres = "default"))
    /\ faults' = faults + F(tres = "default")
    /\ SetSess(g, id, to_summarize([Sess(g, id) EXCEPT !.topics = tres]))
    /\ db' = db
    /\ PipelineFrame

\* summarizer.summarize_transcript returned, or raised (LLM unavailable).
process_summarized(g, id, ok) ==
    /\ AtStage(g, id, "summarize")
    /\ Budget(F(~ok))
    /\ faults' = faults + F(~ok)
    /\ SetSess(g, id,
         IF ok THEN [Sess(g, id) EXCEPT !.summary = "real",
                                        !.status = "extracting_actions",
                                        !.pc = "extract"]
         ELSE fail(Sess(g, id), "summarization failed"))
    /\ db' = db
    /\ PipelineFrame

\* action_extractor.extract returned: items, or the default result.
process_extracted(g, id, ares, pdf_ok) ==
    /\ AtStage(g, id, "extract")
    /\ Budget((F(ares = "default") + F(~pdf_ok)))
    /\ faults' = faults + (F(ares = "default") + F(~pdf_ok))
    /\ SetSess(g, id, after_extract(Sess(g, id), ares, pdf_ok))
    /\ db' = db
    /\ PipelineFrame

\* The exception of storage.save_meeting caught and logged: the pipeline
\* goes on without a row.
process_saved_soft(g, id, ok, mem_ok) ==
    /\ AtStage(g, id, "save")
    /\ ~mem_ok => ok /\ env.memory
    /\ Budget((F(~ok) + F(~mem_ok)))
    /\ faults' = faults + (F(~ok) + F(~mem_ok))
    /\ IF ok
       THEN /\ db' = Append(db, [uid |-> Sess(g, id).uid, email_sent |-> FALSE])
            /\ SetSess(g, id, after_save(Sess(g, id), Len(db) + 1, mem_ok))
       ELSE /\ db' = db
            /\ SetSess(g, id, after_save(Sess(g, id), 0, mem_ok))
    /\ PipelineFrame

\* storage.save_meeting returned the new row id, or raised.
process_saved(g, id, ok, mem_ok) ==
    /\ AtStage(g, id, "save")
    /\ ~mem_ok => ok /\ env.memory
    /\ Budget((F(~ok) + F(~mem_ok)))
    /\ faults' = faults + (F(~ok) + F(~mem_ok))
    /\ IF ok
       THEN /\ db' = Append(db, [uid |-> Sess(g, id).uid, email_sent |-> FALSE])
            /\ SetSess(g, id, after_save(Sess(g, id), Len(db) + 1, mem_ok))
       ELSE /\ db' = db
            /\ SetSess(g, id, fail(Sess(g, id), "database error"))
    /\ PipelineFrame

\* followup_generator.generate returned: from the LLM, or from the template
\* when the LLM call failed.  It never raises.
process_followup(g, id, fres) ==
    /\ AtStage(g, id, "followup")
    /\ Budget(F(fres = "template"))
    /\ faults' = faults + F(fres = "template")
    /\ SetSess(g, id, after_followup(Sess(g, id), fres))
    /\ db' = db
    /\ PipelineFrame

\* send_summary raising into the handler of the whole pipeline.
process_sent_fatal(g, id, ok) ==
    /\ AtStage(g, id, "send")
    /\ Budget(F(~ok))
    /\ faults' = faults + F(~ok)
    /\ SetSess(g, id,
         IF ok THEN [Sess(g, id) EXCEPT !.email = "sent", !.pc = "update"]
         ELSE fail([Sess(g, id) EXCEPT !.email = "failed"], "send failed"))
    /\ db' = db
    /\ PipelineFrame

\* email_sender.send_summary returned, or raised (caught and logged).
process_sent(g, id, ok) ==
    /\ AtStage(g, id, "send")
    /\ Budget(F(~ok))
    /\ faults' = faults + F(~ok)
    /\ SetSess(g, id,
         IF ok THEN [Sess(g, id) EXCEPT !.email = "sent", !.pc = "update"]
         ELSE [Sess(g, id) EXCEPT !.email = "failed",
                                  !.status = "completed", !.pc = "done"])
    /\ db' = db
    /\ PipelineFrame

\* storage.update_meeting returned, or raised (caught by the same handler).
process_updated(g, id, ok) ==
    /\ AtStage(g, id, "update")
    /\ Budget(F(~ok))
    /\ faults' = faults + F(~ok)
    /\ db' = IF ok
             THEN [db EXCEPT ![Sess(g, id).db_record_id].email_sent = TRUE]
             ELSE db
    /\ SetSess(g, id,
         [Sess(g, id) EXCEPT !.status = "completed", !.pc = "done"])
    /\ PipelineFrame


\* ------------------------------------------------------------- handlers

\* What get_session_status returns for a session of the registry.  uid says
\* which start_session request the answer is about.
Snapshot(s) ==
    [ session_id |-> s.id, uid |-> s.uid, status |-> s.status,
      started |-> s.meeting_session # 0 /\ ms[s.meeting_session].started,
      transcript_available |-> s.transcript # "none",
      summary_available |-> s.summary # "none",
      pdf_path |-> s.pdf_path,
      email_sent |-> s.status = "completed" /\ s.send_email ]

\* What it returns for a row of the meetings table.
RecordSnapshot(id) ==
    [ session_id |-> id, uid |-> db[id].uid, status |-> "completed",
      started |-> TRUE, transcript_available |-> TRUE,
      summary_available |-> TRUE, pdf_path |-> "pdf",
      email_sent |-> db[id].email_sent ]

\* SunnyAIController.get_session_status on the current controller: the
\* registry first, then the meetings table, else None.
get_session_status(id) ==
    LET c == ctl[controller] IN
    IF id \in DOMAIN c.sessions THEN Snapshot(c.sessions[id])
    ELSE IF id > 0 /\ id \in DOMAIN db THEN RecordSnapshot(id)
    ELSE NotFound

\* SunnyAIController.get_transcript on the current controller, as GET
\* /api/meetings/{id}/transcript calls it: the transcript of the session in
\* the registry, else that of row id of the meetings table, else None.
get_transcript(id) ==
    LET c == ctl[controller] IN
    IF id \in DOMAIN c.sessions /\ c.sessions[id].transcript # "none"
    THEN [found |-> TRUE, uid |-> c.sessions[id].uid,
          transcript |-> c.sessions[id].transcript]
    ELSE IF id > 0 /\ id \in DOMAIN db
    THEN [found |-> TRUE, uid |-> db[id].uid, transcript |-> "stored"]
    ELSE NotFound

\* SunnyAIController.get_summary, the same way.
get_summary(id) ==
    LET c == ctl[controller] IN
    IF id \in DOMAIN c.sessions /\ c.sessions[id].summary # "none"
    THEN [found |-> TRUE, uid |-> c.sessions[id].uid,
          summary |-> c.sessions[id].summary]
    ELSE IF id > 0 /\ id \in DOMAIN db
    THEN [found |-> TRUE, uid |-> db[id].uid, summary |-> "stored"]
    ELSE NotFound

\* SunnyAIController.get_pdf_path, the same way.
get_pdf_path(id) ==
    LET c == ctl[controller] IN
    IF id \in DOMAIN c.sessions /\ c.sessions[id].pdf_path # "none"
    THEN [found |-> TRUE, uid |-> c.sessions[id].uid,
          pdf_path |-> c.sessions[id].pdf_path]
    ELSE IF id > 0 /\ id \in DOMAIN db
    THEN [found |-> TRUE, uid |-> db[id].uid, pdf_path |-> "stored"]
    ELSE NotFound

\* No request answered yet.
NoReply == [op |-> "none", id |-> 0, code |-> 0, body |-> NotFound]

\* The answers of GET /api/meetings/{id}/status: the snapshot, or 404 for
\* None.
StatusReply(id) ==
    [ op |-> "status", id |-> id,
      code |-> IF get_session_status(id) = NotFound THEN 404 ELSE 200,
      body |-> get_session_status(id) ]

\* The answers of POST /api/meetings/{id}/stop: 200 when stop_session
\* returned, 500 for any exception it raised.
StopReply(id, ok) ==
    [ op |-> "stop", id |-> id, code |-> IF ok THEN 200 ELSE 500,
      body |-> [found |-> ok] ]

\* GET status dropping a finished session from the registry once its
\* final snapshot has been handed out.
get_status_evicts(id) ==
    LET c    == ctl[controller]
        keep == IF id \in DOMAIN c.sessions
                   /\ c.sessions[id].status \in Terminal
                THEN DOMAIN c.sessions \ {id} ELSE DOMAIN c.sessions
    IN
    /\ nqueries < budget.queries
    /\ nqueries' = nqueries + 1
    /\ reply' = StatusReply(id)
    /\ ctl' = [ctl EXCEPT ![controller].sessions =
                             [i \in keep |-> c.sessions[i]]]
    /\ UNCHANGED <<controller, apiKey, ms, mon, calls, files, nfiles, db,
                   fixed, nstarts, nstops, nkeys, faults>>

\* GET /api/meetings/{id}/status answers get_session_status(id), or 404
\* for None; it writes nothing.
get_status(id) ==
    /\ nqueries < budget.queries
    /\ nqueries' = nqueries + 1
    /\ reply' = StatusReply(id)
    /\ UNCHANGED <<controller, apiKey, ctl, ms, mon, calls, files, nfiles, db,
                   fixed, nstarts, nstops, nkeys, faults>>

\* What a handler call does once end_session has returned to it:
\* stop_session sets "stopped" and answers; cleanup goes on to
\* "await self.summarizer.close()".
after_end_session(W, c, call) ==
    IF call.kind = "stop"
    THEN /\ Put([W EXCEPT !.ctl[call.g].sessions[call.id].status = "stopped"])
         /\ calls' = [calls EXCEPT ![c] = IdleCall]
         /\ reply' = StopReply(call.id, TRUE)
    ELSE /\ Put(W)
         /\ calls' = [calls EXCEPT ![c] =
                        [call EXCEPT !.pc = "close", !.target = 0]]
         /\ reply' = reply

\* A handler (slot c) calls recorder.end_session.
call_end_session(c, call) ==
    \E br \in BrowserChoices(World, call.g, 0),
       saved \in SaveChoices(World, call.g, 0) :
      LET r == end_session_enter(World, call.g, 0, br, saved) IN
      /\ faults' = Fault(~saved)
      /\ IF r.pc = "ret"
         THEN after_end_session(r.w, c, call)
         ELSE /\ Put(r.w)
              /\ calls' = [calls EXCEPT ![c] =
                             [call EXCEPT !.pc = r.pc, !.target = r.target]]
              /\ reply' = reply

\* stop_session cancelling the driving task of a session that is not
\* recording: the task ends where it is.
stop_session_cancels(id) ==
    LET g == controller IN
    /\ nstops < budget.stops
    /\ nstops' = nstops + 1
    /\ IF id \notin DOMAIN ctl[g].sessions
       THEN /\ reply' = StopReply(id, FALSE)
            /\ UNCHANGED <<ctl, ms, mon, files, calls, faults>>
       ELSE IF Sess(g, id).status = "recording"
       THEN /\ FreeSlots # {}
            /\ call_end_session(NewSlot,
                 [kind |-> "stop", g |-> g, id |-> id, pc |-> "idle",
                  target |-> 0])
       ELSE /\ ctl' = [ctl EXCEPT ![g].sessions[id].status = "stopped",
                                  ![g].sessions[id].pc = "done"]
            /\ reply' = StopReply(id, TRUE)
            /\ UNCHANGED <<ms, mon, files, calls, faults>>
    /\ UNCHANGED <<controller, apiKey, nfiles, db, fixed, nqueries, nstarts,
                   nkeys>>

\* SunnyAIController.stop_session as POST /api/meetings/{id}/stop calls it.
\* An unknown id raises ValueError, which the route answers with 500.  A
\* session whose status is "recording" has the recorder end ITS current
\* session first; every other session is set to "stopped" at once.
stop_session(id) ==
    LET g == controller IN
    /\ nstops < budget.stops
    /\ nstops' = nstops + 1
    /\ IF id \notin DOMAIN ctl[g].sessions
       THEN /\ reply' = StopReply(id, FALSE)
            /\ UNCHANGED <<ctl, ms, mon, files, calls, faults>>
       ELSE IF Sess(g, id).status = "recording"
       THEN /\ FreeSlots # {}
            /\ call_end_session(NewSlot,
                 [kind |-> "stop", g |-> g, id |-> id, pc |-> "idle",
                  target |-> 0])
       ELSE /\ ctl' = [ctl EXCEPT ![g].sessions[id].status = "stopped"]
            /\ reply' = StopReply(id, TRUE)
            /\ UNCHANGED <<ms, mon, files, calls, faults>>
    /\ UNCHANGED <<controller, apiKey, nfiles, db, fixed, nqueries, nstarts,
                   nkeys>>

\* end_session in a handler call, after "await self._monitoring_task".
call_es_resume(c) ==
    /\ calls[c].pc = "es_wait"
    /\ CanResume(calls[c].target, 0)
    /\ \E saved \in ResumeSaveChoices(calls[c].g) :
         /\ Put(stop_recording(World, calls[c].g, saved))
         /\ faults' = Fault(~saved)
    /\ calls' = [calls EXCEPT ![c].pc = "es_leave", ![c].target = 0]
    /\ UNCHANGED <<controller, apiKey, nfiles, db, fixed, reply, nqueries,
                   nstarts, nstops, nkeys>>

\* end_session in a handler call, after leave_meeting; then the rest of
\* the handler up to its next suspension.
call_es_left(c) ==
    /\ calls[c].pc = "es_leave"
    /\ after_end_session(end_session_finish(World, calls[c].g), c, calls[c])
    /\ UNCHANGED <<controller, apiKey, nfiles, db, fixed, nqueries, nstarts,
                   nstops, nkeys, faults>>

\* POST /api/config/apikey.  The same key: nothing happens.  A new key:
\* the environment variable is set and controller.cleanup() runs, which
\* ends the recorder's session when it is active.
set_api_key(key) ==
    LET g == controller
        call == [kind |-> "key", g |-> g, id |-> 0, pc |-> "close",
                 target |-> 0]
    IN
    IF apiKey = key
    THEN /\ UNCHANGED <<controller, apiKey, ctl, ms, mon, calls, files,
                        nfiles, db, fixed, reply, nqueries, nstarts, nstops,
                        nkeys, faults>>
    ELSE /\ nkeys < budget.keys
         /\ FreeSlots # {}
         /\ nkeys' = nkeys + 1
         /\ apiKey' = key
         /\ IF is_active(ctl[g])
            THEN call_end_session(NewSlot, call)
            ELSE /\ calls' = [calls EXCEPT ![NewSlot] = call]
                 /\ UNCHANGED <<ctl, ms, mon, files, faults, reply>>
         /\ UNCHANGED <<controller, nfiles, db, fixed, nqueries, nstarts,
                        nstops>>

\* set_api_key after cleanup: "controller = SunnyAIController(config)".
\* The tasks of the old controller keep running on the old objects.
set_api_key_replace(c) ==
    /\ calls[c].kind = "key"
    /\ calls[c].pc = "close"
    /\ ctl' = Append(ctl, NewController)
    /\ controller' = Len(ctl) + 1
    /\ calls' = [calls EXCEPT ![c] = IdleCall]
    /\ UNCHANGED <<apiKey, ms, mon, files, nfiles, db, fixed, reply, nqueries,
                   nstarts, nstops, nkeys, faults>>

\* ------------------------------------------------------------- specification

\* After web.app startup(): one controller, nothing started.  What is
\* installed (chromadb, pyannote) is fixed for the process.
\* No session is followed with a clock.
TimedIdle ==
    /\ now = 0
    /\ cfg = [max_duration |-> 0, interval |-> 0]
    /\ rec_state = "none"
    /\ watch = [pc |-> "done", wake |-> 0, last |-> "none"]
    /\ drive = [status |-> "none", error |-> "none", pc |-> "done",
                wake |-> 0]
    /\ host = "none"
    /\ elapsed = 0

Init ==
    /\ TimedIdle
    /\ controller = 1
    /\ apiKey = "k1"
    /\ ctl = <<NewController>>
    /\ ms = << >>
    /\ mon = << >>
    /\ calls = [c \in 1..MaxCalls |-> IdleCall]
    /\ files = {}
    /\ nfiles = 0
    /\ budget \in Scenarios
    /\ env \in Installs(budget)
    /\ db \in StoredBefore(budget)
    /\ reply = NoReply
    /\ nqueries = 0
    /\ nstarts = 0
    /\ nstops = 0
    /\ nkeys = 0
    /\ faults = 0

Gens == 1..Len(ctl)
Ids == 1..MaxSessions
Mons == 1..Len(mon)

Next ==
    \/ \E send \in BOOLEAN : start_session(send)
    \/ \E id \in Ids \cup {MaxSessions + 1} : get_status(id)
    \/ \E id \in Ids \cup {MaxSessions + 1} : stop_session(id)
    \/ \E c \in 1..MaxCalls : call_es_resume(c)
    \/ \E c \in 1..MaxCalls : call_es_left(c)
    \/ \E key \in Keys : set_api_key(key)
    \/ \E c \in 1..MaxCalls : set_api_key_replace(c)
    \/ \E g \in Gens, id \in Ids : run_session_begin(g, id)
    \/ \E g \in Gens, id \in Ids, joined, rec_ok \in BOOLEAN :
          run_session_joined(g, id, joined, rec_ok)
    \/ \E g \in Gens, id \in Ids : run_session_wake(g, id)
    \/ \E k \in Mons : monitor_start(k)
    \/ \E k \in Mons, maxed \in BOOLEAN : monitor_tick(k, maxed)
    \/ \E k \in Mons, res \in ProbeResults : monitor_probe(k, res)
    \/ \E k \in Mons : monitor_es_resume(k)
    \/ \E k \in Mons : monitor_es_left(k)
    \/ \E g \in Gens, id \in Ids, res \in {"full", "empty", "raise"} :
          process_transcribed(g, id, res)
    \/ \E g \in Gens, id \in Ids, dres \in {"real", "default"} :
          process_diarized(g, id, dres)
    \/ \E g \in Gens, id \in Ids, tres \in {"real", "default"} :
          process_topics(g, id, tres)
    \/ \E g \in Gens, id \in Ids, ok \in BOOLEAN : process_summarized(g, id, ok)
    \/ \E g \in Gens, id \in Ids, ares \in {"real", "default"}, ok \in BOOLEAN :
          process_extracted(g, id, ares, ok)
    \/ \E g \in Gens, id \in Ids, ok, mem_ok \in BOOLEAN :
          process_saved(g, id, ok, mem_ok)
    \/ \E g \in Gens, id \in Ids, fres \in {"llm", "template"} :
          process_followup(g, id, fres)
    \/ \E g \in Gens, id \in Ids, ok \in BOOLEAN : process_sent(g, id, ok)
    \/ \E g \in Gens, id \in Ids, ok \in BOOLEAN : process_updated(g, id, ok)

Spec == Init /\ [][Next]_vars

\* ------------------------------------------------------------- timing
\* One session alone in the process, followed with a clock of seconds from
\* the moment start_session of the recorder returned: the monitoring task has
\* taken start_time and sleeps, the driving task has set "recording" and
\* sleeps in its wait loop.  A task that is due runs before time passes.

MaxDurationMinutes == 1    \* meeting.max_duration_minutes of the run
DefaultInterval == 10      \* end_detection_interval_seconds by default
ShortInterval == 1         \* end_detection_interval_seconds set lower
PollSeconds == 5           \* asyncio.sleep(5) of the wait loop
LeavePause == 1            \* asyncio.sleep(1) after the click on Leave
MaxProbeSeconds == 1       \* the longest _check_meeting_ended

\* MeetingRecorder.__init__: max_duration in seconds, and the interval.
Configs ==
    [max_duration : {MaxDurationMinutes * 60},
     interval : {ShortInterval, DefaultInterval}]

Horizon == MaxDurationMinutes * 60 + 2 * DefaultInterval

ProbeTimes == 0..MaxProbeSeconds

\* leave_meeting: with the Leave button found it clicks and sleeps.
LeaveTimes == {0, LeavePause}

TimedInit ==
    /\ controller = 1
    /\ apiKey = "k1"
    /\ ctl = <<NewController>>
    /\ ms = << >>
    /\ mon = << >>
    /\ calls = [c \in 1..MaxCalls |-> IdleCall]
    /\ files = {}
    /\ nfiles = 0
    /\ budget = Solo
    /\ env = [memory |-> FALSE, pyannote |-> FALSE]
    /\ db = << >>
    /\ reply = NoReply
    /\ nqueries = 0
    /\ nstarts = 0
    /\ nstops = 0
    /\ nkeys = 0
    /\ faults = 0
    /\ now = 0
    /\ cfg \in Configs
    /\ rec_state = "RECORDING"
    /\ watch = [pc |-> "sleep", wake |-> cfg.interval, last |-> "none"]
    /\ drive = [status |-> "recording", error |-> "none", pc |-> "sleep",
                wake |-> PollSeconds]
    /\ host = "admits"
    /\ elapsed = 0

Due(t) == t.pc # "done" /\ t.wake <= now

\* A second passes while no task is due.
advance ==
    /\ drive.pc # "done"
    /\ ~Due(watch)
    /\ ~Due(drive)
    /\ now < Horizon
    /\ now' = now + 1
    /\ UNCHANGED <<cfg, rec_state, watch, drive, host, elapsed, untimed>>

\* end_session called by the monitoring task: cancelling and awaiting
\* itself and stop_recording take no time; leave_meeting takes `leave`.
timed_end_session(w, leave) ==
    watch' = [w EXCEPT !.pc = "leave", !.wake = now + leave]

\* _monitor_meeting woken from asyncio.sleep(end_detection_interval):
\* elapsed (start_time is 0) against max_duration, then the probe.
timed_monitor_tick(probe, leave) ==
    /\ watch.pc = "sleep"
    /\ Due(watch)
    /\ IF now >= cfg.max_duration
       THEN timed_end_session(watch, leave)
       ELSE watch' = [watch EXCEPT !.pc = "probe", !.wake = now + probe]
    /\ UNCHANGED <<now, cfg, rec_state, drive, host, elapsed, untimed>>

\* The monitor taking a probe that raised for the end of the meeting.
timed_monitor_probed_raise_ends(res, leave) ==
    /\ watch.pc = "probe"
    /\ Due(watch)
    /\ IF res \in {"ended", "raise"}
       THEN timed_end_session([watch EXCEPT !.last = res], leave)
       ELSE watch' = [watch EXCEPT !.last = res, !.pc = "sleep",
                                  !.wake = now + cfg.interval]
    /\ UNCHANGED <<now, cfg, rec_state, drive, host, elapsed, untimed>>

\* _check_meeting_ended returned or raised (last tells which); the loop
\* test, then the next sleep.
timed_monitor_probed(res, leave) ==
    /\ watch.pc = "probe"
    /\ Due(watch)
    /\ IF res = "ended"
       THEN timed_end_session([watch EXCEPT !.last = res], leave)
       ELSE watch' = IF rec_state = "RECORDING"
                     THEN [watch EXCEPT !.last = res, !.pc = "sleep",
                                        !.wake = now + cfg.interval]
                     ELSE [watch EXCEPT !.last = res, !.pc = "done",
                                        !.wake = now]
    /\ UNCHANGED <<now, cfg, rec_state, drive, host, elapsed, untimed>>

\* leave_meeting returned: end_session sets ENDED and the task ends.
timed_end_session_left ==
    /\ watch.pc = "leave"
    /\ Due(watch)
    /\ rec_state' = "ENDED"
    /\ watch' = [watch EXCEPT !.pc = "done", !.wake = now]
    /\ UNCHANGED <<now, cfg, drive, host, elapsed, untimed>>

\* The wait loop of _run_session woken from asyncio.sleep(5): it sleeps
\* again while the recorder is active, and goes on to _process_recording
\* (to the transcriber, or to error without an audio file) when it is not.
timed_run_session_poll(audio) ==
    /\ drive.pc = "sleep"
    /\ Due(drive)
    /\ drive' = IF rec_state = "RECORDING"
                THEN [drive EXCEPT !.wake = now + PollSeconds]
                ELSE [status |-> IF audio THEN "transcribing" ELSE "error",
                      error |-> IF audio THEN "none"
                                ELSE "No audio file recorded",
                      pc |-> "done", wake |-> now]
    /\ UNCHANGED <<now, cfg, rec_state, watch, host, elapsed, untimed>>

TimedNext ==
    \/ advance
    \/ \E probe \in ProbeTimes, leave \in LeaveTimes :
          timed_monitor_tick(probe, leave)
    \/ \E res \in ProbeResults, leave \in LeaveTimes :
          timed_monitor_probed(res, leave)
    \/ timed_end_session_left
    \/ \E audio \in BOOLEAN : timed_run_session_poll(audio)

TimedSpec == TimedInit /\ [][TimedNext]_vars

\* ------------------------------------------------------------- admission
\* One session alone in the process, followed with the clock from the
\* moment _join_google_meet (or _join_zoom) found itself outside the
\* meeting and called _wait_for_admission.  Its status is "joining".

ExampleTimeout == 30       \* meeting.waiting_room_timeout_seconds of a run
OddTimeout == 12           \* one that is no multiple of check_interval
CheckInterval == 5         \* check_interval of _wait_for_admission

AdmissionConfigs ==
    [max_duration : {MaxDurationMinutes * 60},
     interval : {DefaultInterval},
     waiting_room_timeout : {ExampleTimeout, OddTimeout}]

\* The host never answers, admits at some time, or denies at some time.
Hosts == {"silent", "admits", "denies"}

\* What a poll of the page can find.
Answers(h) ==
    CASE h = "admits" -> {"pending", "admitted"}
      [] h = "denies" -> {"pending", "denied"}
      [] OTHER -> {"pending"}

AdmissionInit ==
    /\ controller = 1
    /\ apiKey = "k1"
    /\ ctl = <<NewController>>
    /\ ms = << >>
    /\ mon = << >>
    /\ calls = [c \in 1..MaxCalls |-> IdleCall]
    /\ files = {}
    /\ nfiles = 0
    /\ budget = Solo
    /\ env = [memory |-> FALSE, pyannote |-> FALSE]
    /\ db = << >>
    /\ reply = NoReply
    /\ nqueries = 0
    /\ nstarts = 0
    /\ nstops = 0
    /\ nkeys = 0
    /\ faults = 0
    /\ now = 0
    /\ cfg \in AdmissionConfigs
    /\ rec_state = "JOINING"
    /\ watch = [pc |-> "done", wake |-> 0, last |-> "none"]
    /\ drive = [status |-> "joining", error |-> "none", pc |-> "admission",
                wake |-> CheckInterval]
    /\ host \in Hosts
    /\ elapsed = 0

\* join_meeting returned to MeetingRecorder.start_session and that to
\* _run_session, with no suspension on the way: False gives ERROR and
\* "Failed to join meeting", True gives RECORDING, the monitoring task
\* and status "recording" (where TimedSpec takes over).
join_returned(joined) ==
    IF joined
    THEN /\ rec_state' = "RECORDING"
         /\ drive' = [drive EXCEPT !.status = "recording", !.pc = "done",
                                   !.wake = now]
    ELSE /\ rec_state' = "ERROR"
         /\ drive' = [drive EXCEPT !.status = "error",
                                   !.error = "Failed to join meeting",
                                   !.pc = "done", !.wake = now]

\* _wait_for_admission woken from asyncio.sleep(check_interval): elapsed
\* grows, and _verify_in_meeting and page.content() take `took` seconds.
wait_for_admission_poll(took) ==
    /\ drive.pc = "admission"
    /\ Due(drive)
    /\ elapsed' = elapsed + CheckInterval
    /\ drive' = [drive EXCEPT !.pc = "look", !.wake = now + took]
    /\ UNCHANGED <<now, cfg, rec_state, watch, host, untimed>>

\* The same loop giving up one poll early.
wait_for_admission_early(answer) ==
    /\ drive.pc = "look"
    /\ Due(drive)
    /\ IF answer = "pending"
          /\ elapsed + CheckInterval < cfg.waiting_room_timeout
       THEN /\ drive' = [drive EXCEPT !.pc = "admission",
                                      !.wake = now + CheckInterval]
            /\ rec_state' = rec_state
       ELSE join_returned(answer = "admitted")
    /\ UNCHANGED <<now, cfg, watch, host, elapsed, untimed>>

\* The page was looked at: admitted returns True, denied returns False,
\* otherwise the loop test "elapsed < timeout" and the next sleep, or
\* False when the time is up.
wait_for_admission_looked(answer) ==
    /\ drive.pc = "look"
    /\ Due(drive)
    /\ IF answer = "pending" /\ elapsed < cfg.waiting_room_timeout
       THEN /\ drive' = [drive EXCEPT !.pc = "admission",
                                      !.wake = now + CheckInterval]
            /\ rec_state' = rec_state
       ELSE join_returned(answer = "admitted")
    /\ UNCHANGED <<now, cfg, watch, host, elapsed, untimed>>

\* SunnyAIController.stop_session on the session while it is not
\* recording: the status is overwritten, nothing else happens.
timed_stop_session ==
    /\ drive.status \notin {"none", "recording"}
    /\ drive' = [drive EXCEPT !.status = "stopped"]
    /\ UNCHANGED <<now, cfg, rec_state, watch, host, elapsed, untimed>>

AdmissionNext ==
    \/ advance
    \/ \E took \in ProbeTimes : wait_for_admission_poll(took)
    \/ \E answer \in Answers(host) : wait_for_admission_looked(answer)
    \/ timed_stop_session

\* Timers fire and the calls to the browser return.
AdmissionSpec ==
    AdmissionInit /\ [][AdmissionNext]_vars /\ WF_vars(AdmissionNext)

\* ------------------------------------------------------------- properties

SessAfter(g, id) == ctl'[g].sessions[id]

\* C1: once a session's status is completed, error or stopped, no step
\* changes that status.
C1_TerminalIsFinal ==
    [][\A r \in SessionRefs :
          Sess(r[1], r[2]).status \in Terminal
             => SessAfter(r[1], r[2]).status = Sess(r[1], r[2]).status]_vars

\* C2: a session stopped while it was recording (its status is stopped and
\* its driving task is still in the wait loop that follows "recording")
\* never goes on to a status of the processing phase or to completed.
C2_StoppedNeverProcessed ==
    [][\A r \in SessionRefs :
          (Sess(r[1], r[2]).status = "stopped" /\ Sess(r[1], r[2]).pc = "wait")
             => SessAfter(r[1], r[2]).status \notin
                  {"processing", "transcribing", "diarizing",
                   "segmenting_topics", "analyzing_sentiment", "summarizing",
                   "extracting_actions", "generating_analytics",
                   "generating_pdf", "storing_memory", "generating_followup",
                   "sending_email", "completed"}]_vars

\* C3: a session whose transcription succeeded is never moved to error by
\* a fail-soft stage (here: the diarization stage raising in
\* align_with_transcript, the memory store raising).
C3_FailSoftNeverError ==
    \A r \in SessionRefs :
       Sess(r[1], r[2]).transcript # "none"
          => ~ ( /\ Sess(r[1], r[2]).status = "error"
                 /\ Sess(r[1], r[2]).error
                       \in {"AttributeError", "memory store failed"} )

\* The outputs the stages after transcription write for a session.
LaterOutputs(s) ==
    <<s.diarization, s.topics, s.sentiment, s.summary, s.action_items,
      s.analytics, s.pdf_path, s.db_record_id, s.memory, s.followup_email,
      s.email>>

NoLaterOutputs ==
    <<"none", "none", "none", "none", "none", "none", "none", 0, "none",
      "none", "none">>

\* C4: the step in which the transcriber raises sets status error, records
\* the message and ends the driving task with no output of a later stage
\* written; from then on the task stays ended, the message stays, no later
\* output is ever written and no row of the session is stored.
C4_TranscriptionFailure ==
    [][\A r \in SessionRefs :
          LET s == Sess(r[1], r[2])
              t == SessAfter(r[1], r[2])
          IN /\ (s.pc = "transcribe" /\ t.error = "transcription failed")
                  => /\ t.status = "error"
                     /\ t.pc = "done"
                     /\ t.transcript = "none"
                     /\ LaterOutputs(t) = NoLaterOutputs
             /\ s.error = "transcription failed"
                  => /\ t.error = s.error
                     /\ t.pc = "done"
                     /\ t.transcript = "none"
                     /\ LaterOutputs(t) = NoLaterOutputs
                     /\ \A i \in DOMAIN db' : db'[i].uid # s.uid]_vars

\* C4 witness: a session whose transcription failed, seen after the step.
C4_Witness ==
    \E r \in SessionRefs :
       /\ Sess(r[1], r[2]).error = "transcription failed"
       /\ Sess(r[1], r[2]).status = "error"
       /\ Sess(r[1], r[2]).pc = "done"

\* C5: at most one session is joining or recording at a time.
C5_ExclusiveRecorder ==
    Cardinality({r \in SessionRefs :
                    Sess(r[1], r[2]).status \in {"joining", "recording"}}) <= 1

\* C6: a session leaves recording only by being stopped or after its own
\* meeting session was ended (max duration, meeting end, stop).
C6_LeavesRecordingOnOwnEnd ==
    [][\A r \in SessionRefs :
          LET s == Sess(r[1], r[2])
              t == SessAfter(r[1], r[2])
          IN (s.status = "recording" /\ t.status # "recording")
                => \/ t.status = "stopped"
                   \/ ms[s.meeting_session].state = "ENDED"]_vars

\* C7: the statuses of a session follow the fixed order: a status changes
\* only to one later in the order or to error / stopped, and error,
\* stopped and completed end the sequence.  ("starting", the status a
\* session has before its driving task runs, is taken as the first.)
C7_StatusOrder ==
    [][LET order == <<"starting", "joining", "recording", "processing",
                      "transcribing", "diarizing", "segmenting_topics",
                      "analyzing_sentiment", "summarizing",
                      "extracting_actions", "generating_analytics",
                      "generating_pdf", "storing_memory",
                      "generating_followup", "sending_email", "completed">>
           rank(x) == IF x \in {"error", "stopped"} THEN Len(order) + 1
                      ELSE CHOOSE i \in 1..Len(order) : order[i] = x
       IN \A r \in SessionRefs :
             LET a == Sess(r[1], r[2]).status
                 b == SessAfter(r[1], r[2]).status
             IN a # b => a \notin Terminal /\ rank(a) < rank(b)]_vars

\* C8: start_session is always possible and a step of it only registers
\* the session: a new entry under the id it returns, status "starting",
\* the driving task created but not yet run, no error; the recorder, the
\* joiner and the audio capture are not touched (the join has not begun).
\* A join or recording failure is written by the driving task only.
C8_StartReturnsAtOnce ==
    /\ [](nstarts < budget.sessions => ENABLED start_session(TRUE))
    /\ [][nstarts' # nstarts =>
            LET g  == controller
                id == ctl'[g].session_counter
            IN /\ id \notin DOMAIN ctl[g].sessions
               /\ id \in DOMAIN ctl'[g].sessions
               /\ SessAfter(g, id) =
                     NewSession(id, nstarts', SessAfter(g, id).send_email)
               /\ [ctl'[g] EXCEPT !.sessions = << >>, !.session_counter = 0]
                    = [ctl[g] EXCEPT !.sessions = << >>, !.session_counter = 0]
               /\ UNCHANGED <<ms, mon, files, calls, controller>>]_vars
    /\ [][\A r \in SessionRefs :
            (Sess(r[1], r[2]).error = "none"
               /\ SessAfter(r[1], r[2]).error
                    \in {"Failed to join meeting", "audio device error"})
              => Sess(r[1], r[2]).pc = "join"]_vars

\* C8 witness: start_session has returned for a second session while the
\* first one is recording, and the new session's task has not run yet.
C8_Witness ==
    \E r, q \in SessionRefs :
       /\ Sess(r[1], r[2]).status = "starting"
       /\ Sess(r[1], r[2]).pc = "new"
       /\ Sess(q[1], q[2]).status = "recording"

\* C9: on a controller every start_session returns an id greater than all
\* ids returned before, adds exactly that entry to the registry and leaves
\* the entries of the earlier ids as they are; an entry's id is its key.
C9_IdsUniqueMonotonic ==
    /\ [][nstarts' # nstarts =>
            LET g   == controller
                id  == ctl'[g].session_counter
                old == DOMAIN ctl[g].sessions
            IN /\ id > ctl[g].session_counter
               /\ \A i \in old : i < id /\ SessAfter(g, i) = Sess(g, i)
               /\ DOMAIN ctl'[g].sessions = old \cup {id}
               /\ \A i \in old : Sess(g, i).uid # SessAfter(g, id).uid]_vars
    /\ [](\A r \in SessionRefs :
            /\ Sess(r[1], r[2]).id = r[2]
            /\ r[2] <= ctl[r[1]].session_counter)

\* C9 witness: a controller has handed out two ids.
C9_Witness ==
    \E g \in 1..Len(ctl) :
       /\ ctl[g].session_counter = 2
       /\ DOMAIN ctl[g].sessions = {1, 2}
       /\ ctl[g].sessions[1].uid # ctl[g].sessions[2].uid

\* C10: every session ever started is what get_session_status answers for
\* its id: never NotFound, never another session.
C10_SessionStaysFound ==
    \A r \in SessionRefs :
       /\ get_session_status(r[2]) # NotFound
       /\ get_session_status(r[2]).uid = Sess(r[1], r[2]).uid

\* C11: a GET status request changes nothing but its answer, and the
\* answer is what the same request gets when it is repeated at once: after
\* the request get_session_status returns for every id what it returned
\* before, and the answer given is that value.
C11_GetStatusReadOnly ==
    [][nqueries' # nqueries =>
         /\ UNCHANGED <<controller, apiKey, ctl, ms, mon, calls, files,
                        nfiles, db, fixed, nstarts, nstops, nkeys, faults>>
         /\ \A id \in Ids \cup {MaxSessions + 1} :
               /\ get_session_status(id)' = get_session_status(id)
               /\ reply'.id = id => reply'.body = get_session_status(id)'
         /\ reply'.op = "status"
         /\ (reply.op = "status" /\ reply.id = reply'.id
               /\ reply.body = get_session_status(reply.id))
              => reply' = reply]_vars

\* C11 witness: the second of two requests has been answered with the
\* snapshot of a finished session.
C11_Witness ==
    /\ nqueries = 2
    /\ reply.op = "status"
    /\ reply.code = 200
    /\ reply.body.status = "completed"
    /\ reply.body.uid > 0

\* C12: a GET status request is answered with a snapshot only for an id
\* that start_session has handed out in this process.
C12_UnknownIdNotFound ==
    (reply.op = "status" /\ reply.code = 200)
       => \E g \in 1..Len(ctl) : reply.id \in DOMAIN ctl[g].sessions

\* C13: a POST stop request for an id that is not in the registry is
\* answered 404.
C13_StopUnknownIs404 ==
    (reply.op = "stop" /\ ~reply.body.found) => reply.code = 404

\* C14: a stop request for a session whose status is completed, error or
\* stopped changes no field of the session and does not touch the
\* recorder.
C14_StopOnTerminalIsNoOp ==
    [][\A id \in DOMAIN ctl[controller].sessions :
          ( /\ nstops' # nstops
            /\ reply' = StopReply(id, TRUE)
            /\ Sess(controller, id).status \in Terminal )
          => /\ SessAfter(controller, id) = Sess(controller, id)
             /\ UNCHANGED <<ms, mon, files, calls>>]_vars

\* C15: a session stopped while its driving task was awaiting the join
\* keeps the status stopped: the task sets no further status, in
\* particular not recording.
C15_StopCancelsJoin ==
    [][\A r \in SessionRefs :
          (Sess(r[1], r[2]).status = "stopped" /\ Sess(r[1], r[2]).pc = "join")
             => /\ SessAfter(r[1], r[2]).status = "stopped"
                /\ SessAfter(r[1], r[2]).pc # "wait"]_vars

\* C16: when a stop request sets a joining or recording session to
\* stopped, the audio capture is not recording, the joiner is not in the
\* meeting and its browser is not open.
C16_StoppedAfterRelease ==
    [][\A r \in SessionRefs :
          ( /\ Sess(r[1], r[2]).status \in {"joining", "recording"}
            /\ SessAfter(r[1], r[2]).status = "stopped" )
          => /\ ~ctl'[r[1]].recording
             /\ ~ctl'[r[1]].in_meeting
             /\ ctl'[r[1]].browser # "open"]_vars

\* Where the driving task is while it is inside _process_recording.
PipelinePcs ==
    {"transcribe", "diarize", "topics", "summarize", "extract", "save",
     "followup", "send", "update"}

\* The driving task of session id resumes from the provider call it awaits.
pipeline_step(g, id) ==
    \/ \E res \in {"full", "empty", "raise"} : process_transcribed(g, id, res)
    \/ \E dres \in {"real", "default"} : process_diarized(g, id, dres)
    \/ \E tres \in {"real", "default"} : process_topics(g, id, tres)
    \/ \E ok \in BOOLEAN : process_summarized(g, id, ok)
    \/ \E ares \in {"real", "default"}, ok \in BOOLEAN :
          process_extracted(g, id, ares, ok)
    \/ \E ok, mem_ok \in BOOLEAN : process_saved(g, id, ok, mem_ok)
    \/ \E fres \in {"llm", "template"} : process_followup(g, id, fres)
    \/ \E ok \in BOOLEAN : process_sent(g, id, ok)
    \/ \E ok \in BOOLEAN : process_updated(g, id, ok)

\* One step of the driving task of session id.
run_session_step(g, id) ==
    \/ run_session_begin(g, id)
    \/ \E joined, rec_ok \in BOOLEAN : run_session_joined(g, id, joined, rec_ok)
    \/ run_session_wake(g, id)
    \/ pipeline_step(g, id)

\* One step of monitoring task k, and its step that finds the maximal
\* duration passed.
monitor_step(k) ==
    /\ k \in Mons
    /\ \/ monitor_start(k)
       \/ \E maxed \in BOOLEAN : monitor_tick(k, maxed)
       \/ \E res \in ProbeResults : monitor_probe(k, res)
       \/ monitor_es_resume(k)
       \/ monitor_es_left(k)

monitor_maxed(k) == k \in Mons /\ monitor_tick(k, TRUE)

\* One step of a request handler suspended in end_session.
call_step(c) ==
    \/ call_es_resume(c)
    \/ call_es_left(c)
    \/ set_api_key_replace(c)

\* Every task that can go on does: sleeps end and the calls to the browser
\* and the providers return or raise; and a monitoring task that keeps
\* polling comes to the tick at which max_duration has passed.
FairSpec ==
    /\ Spec
    /\ \A g \in 1..(MaxKeyChanges + 1), id \in Ids :
          WF_vars(run_session_step(g, id))
    /\ \A k \in 1..MaxSessions :
          WF_vars(monitor_step(k)) /\ SF_vars(monitor_maxed(k))
    /\ \A c \in 1..MaxCalls : WF_vars(call_step(c))

\* C17: a stop request changes nothing but the status of a session that
\* is being processed; the driving task stays where it is and can go on
\* (when its provider answers), and the step that ends the pipeline
\* leaves the session completed or error.
C17_ProcessingNotInterrupted ==
    /\ [][\A r \in SessionRefs :
            (nstops' # nstops /\ Sess(r[1], r[2]).pc \in PipelinePcs)
              => SessAfter(r[1], r[2]) =
                    [Sess(r[1], r[2]) EXCEPT
                        !.status = SessAfter(r[1], r[2]).status]]_vars
    /\ [](\A r \in SessionRefs :
            ( /\ Sess(r[1], r[2]).pc \in PipelinePcs
              /\ Sess(r[1], r[2]).pc = "transcribe"
                    => Cardinality(Transcribed) < budget.transcribed )
              => ENABLED pipeline_step(r[1], r[2]))
    /\ [][\A r \in SessionRefs :
            ( /\ Sess(r[1], r[2]).pc \in PipelinePcs
              /\ SessAfter(r[1], r[2]).pc = "done" )
              => SessAfter(r[1], r[2]).status \in {"completed", "error"}]_vars

\* C17 witness: a stop request has set a session to stopped while its
\* driving task is past the summary, awaiting the action items.
C17_Witness ==
    \E r \in SessionRefs :
       /\ Sess(r[1], r[2]).status = "stopped"
       /\ Sess(r[1], r[2]).pc = "extract"
       /\ Sess(r[1], r[2]).summary # "none"

\* C18: the step in which the recorder reports a failed join to the driving
\* task of a session puts the session in status error with a description,
\* ends the task and starts no recording; a session with that error is
\* never recording or in a processing status, and its task stays ended.
C18_JoinFailure ==
    /\ [][\A r \in SessionRefs :
            LET rs == ctl[r[1]].rsession IN
            ( /\ Sess(r[1], r[2]).pc = "join"
              /\ SessAfter(r[1], r[2]).pc # "join"
              /\ ms'[rs].state = "ERROR"
              /\ ms'[rs].error_message = "Failed to join meeting" )
              => /\ SessAfter(r[1], r[2]).status = "error"
                 /\ SessAfter(r[1], r[2]).error = "Failed to join meeting"
                 /\ SessAfter(r[1], r[2]).pc = "done"
                 /\ ctl'[r[1]].recording = ctl[r[1]].recording
                 /\ ctl'[r[1]].current_file = ctl[r[1]].current_file
                 /\ UNCHANGED <<mon, nfiles, files>>]_vars
    /\ [](\A r \in SessionRefs :
            Sess(r[1], r[2]).error = "Failed to join meeting"
              => /\ Sess(r[1], r[2]).status \in {"error", "stopped"}
                 /\ Sess(r[1], r[2]).pc = "done"
                 /\ Sess(r[1], r[2]).transcript = "none")

\* C18 witness: a session whose join failed, in error, its task ended,
\* with no recording ever started in the run.
C18_Witness ==
    \E r \in SessionRefs :
       /\ Sess(r[1], r[2]).status = "error"
       /\ Sess(r[1], r[2]).error = "Failed to join meeting"
       /\ Sess(r[1], r[2]).pc = "done"
       /\ ~ctl[r[1]].recording
       /\ nfiles = 0

\* The audio file of the meeting session a session holds is on disk.
HasAudio(s) ==
    /\ s.meeting_session # 0
    /\ ms[s.meeting_session].audio_file # 0
    /\ ms[s.meeting_session].audio_file \in files

\* C19: when the wait of the live phase ends and the session's audio file
\* is not on disk, that step sets status error with the message, ends the
\* driving task and writes no output; a session with that error never has
\* a transcript or a later output, and a session is in the pipeline only
\* with its audio file on disk.
C19_RecordingFailure ==
    /\ [][\A r \in SessionRefs :
            LET s == Sess(r[1], r[2])
                t == SessAfter(r[1], r[2])
            IN (s.pc = "wait" /\ t.pc # "wait" /\ ~HasAudio(s))
                 => /\ t.status = "error"
                    /\ t.error = "No audio file recorded"
                    /\ t.pc = "done"
                    /\ t.transcript = "none"
                    /\ LaterOutputs(t) = NoLaterOutputs]_vars
    /\ [](\A r \in SessionRefs :
            LET s == Sess(r[1], r[2]) IN
            /\ s.error = "No audio file recorded"
                 => /\ s.pc = "done"
                    /\ s.status \in {"error", "stopped"}
                    /\ s.transcript = "none"
                    /\ LaterOutputs(s) = NoLaterOutputs
            /\ s.pc \in PipelinePcs => HasAudio(s))

\* C19 witness: the recording of a session was stopped and nothing was
\* saved; the session ended in error with the message.
C19_Witness ==
    \E r \in SessionRefs :
       /\ Sess(r[1], r[2]).status = "error"
       /\ Sess(r[1], r[2]).error = "No audio file recorded"
       /\ Sess(r[1], r[2]).pc = "done"
       /\ ~HasAudio(Sess(r[1], r[2]))
       /\ ms[Sess(r[1], r[2]).meeting_session].state = "ENDED"

\* C20: a session is in status recording only up to max_duration plus one
\* monitor interval after its recording began.
C20_LeavesRecordingInTime ==
    drive.status = "recording" => now <= cfg.max_duration + cfg.interval

\* C21: while the host never answers, the session has an error only when
\* at least waiting_room_timeout seconds of polling have passed, and it
\* does come to have one.
C21_WaitingRoomTimeout ==
    /\ [](host = "silent" /\ drive.error # "none"
             => /\ now >= cfg.waiting_room_timeout
                /\ elapsed >= cfg.waiting_room_timeout)
    /\ [](host = "silent" /\ drive.status = "error" => drive.error # "none")
    /\ (host = "silent" => <>(drive.status = "error"))

\* C21 witness: the host stayed silent and the session is in error after
\* the waiting-room time, the loop having run past a timeout that is no
\* multiple of its interval.
C21_Witness ==
    /\ host = "silent"
    /\ drive.status = "error"
    /\ cfg.waiting_room_timeout = OddTimeout
    /\ elapsed > OddTimeout
    /\ now >= elapsed

\* C22: a session that failed because the waiting-room time ran out has
\* the reason AdmissionTimeout, and one that failed because the host
\* denied it (before the time ran out) has the reason AdmissionDenied.
C22_AdmissionClassified ==
    /\ (host = "silent" /\ drive.error # "none")
          => drive.error = "AdmissionTimeout"
    /\ (host = "denies" /\ drive.error # "none"
          /\ elapsed < cfg.waiting_room_timeout)
          => drive.error = "AdmissionDenied"

\* C23: the step in which sending the email fails sets the session to
\* completed, ends the task and writes no error; a session whose email
\* failed is never in status error and has no error recorded.
C23_DeliveryFailSoft ==
    /\ [][\A r \in SessionRefs :
            LET s == Sess(r[1], r[2])
                t == SessAfter(r[1], r[2])
            IN (s.pc = "send" /\ t.email = "failed")
                 => /\ t.status = "completed"
                    /\ t.pc = "done"
                    /\ t.error = s.error]_vars
    /\ [](\A r \in SessionRefs :
            Sess(r[1], r[2]).email = "failed"
              => /\ Sess(r[1], r[2]).send_email
                 /\ Sess(r[1], r[2]).status \in {"completed", "stopped"}
                 /\ Sess(r[1], r[2]).error = "none"
                 /\ Sess(r[1], r[2]).pc = "done")

\* C23 witness: delivery was asked for, sending failed, and the session
\* is completed with its report written.
C23_Witness ==
    \E r \in SessionRefs :
       /\ Sess(r[1], r[2]).send_email
       /\ Sess(r[1], r[2]).email = "failed"
       /\ Sess(r[1], r[2]).status = "completed"
       /\ Sess(r[1], r[2]).pdf_path # "none"

\* C24: a session whose save to the meetings table failed keeps its
\* transcript, summary and report path, and the transcript and summary
\* queries for its id return them.
C24_OutputsSurviveSaveFailure ==
    \A r \in SessionRefs :
       LET s == Sess(r[1], r[2]) IN
       s.error = "database error"
         => /\ s.transcript # "none"
            /\ s.summary # "none"
            /\ s.pdf_path # "none"
            /\ get_transcript(r[2]) =
                  [found |-> TRUE, uid |-> s.uid, transcript |-> s.transcript]
            /\ get_summary(r[2]) =
                  [found |-> TRUE, uid |-> s.uid, summary |-> s.summary]

C26_SnapshotCarriesError ==
    (reply.op = "status" /\ reply.code = 200 /\ reply.body.status = "error")
       => /\ "error" \in DOMAIN reply.body
          /\ \E r \in SessionRefs :
                /\ Sess(r[1], r[2]).uid = reply.body.uid
                /\ reply.body.error = Sess(r[1], r[2]).error

\* The driving task of a session has ended, or it awaits a transcription
\* the run does not follow.
Settled(s) ==
    \/ s.pc = "done"
    \/ s.pc = "transcribe" /\ Cardinality(Transcribed) >= budget.transcribed

\* C27: a driving task that has ended left its session completed, error
\* or stopped, and from some time on the driving task of every started
\* session has ended.
C27_EveryTaskEndsTerminal ==
    /\ [](\A r \in SessionRefs :
            Sess(r[1], r[2]).pc = "done"
               => Sess(r[1], r[2]).status \in Terminal)
    /\ <>[](\A r \in SessionRefs : Settled(Sess(r[1], r[2])))

\* C27 witness: a provider raised in the pipeline of a session that had
\* been stopped on the way, and the session's task ended with status error.
C27_Witness ==
    \E r \in SessionRefs :
       /\ Sess(r[1], r[2]).pc = "done"
       /\ Sess(r[1], r[2]).status = "error"
       /\ Sess(r[1], r[2]).error = "summarization failed"
       /\ nstops > 0

\* A stop request on controller g is under way: its handler is suspended
\* in recorder.end_session.
StopPending(g) ==
    \E c \in 1..MaxCalls :
       calls[c].kind = "stop" /\ calls[c].pc # "idle" /\ calls[c].g = g

\* C28: a tick that finds the maximal duration passed ends the session
\* without probing the meeting, and while a stop request is under way no
\* monitoring task of that recorder ends the session by a tick or a probe
\* of its own.
C28_TickPriority ==
    [][\A k \in Mons :
          /\ monitor_tick(k, TRUE) => mon'[k].pc # "probe"
          /\ (StopPending(mon[k].g) /\ mon[k].pc \in {"new", "sleep", "probe"})
                => mon'[k].pc \notin {"es_wait", "es_leave"}]_vars

\* C29: the step in which the end probe raised leaves the recorder's
\* session RECORDING and the session in status recording, and puts the
\* monitor to sleep for one more interval; the monitor ends the session
\* only after an elapsed time of max_duration or a probe that found the
\* meeting ended.
C29_ProbeErrorKeepsRecording ==
    /\ [][(watch.pc = "probe" /\ watch'.pc # "probe" /\ watch'.last = "raise")
            => /\ rec_state' = rec_state
               /\ drive' = drive
               /\ watch'.pc = "sleep"
               /\ watch'.wake = now + cfg.interval]_vars
    /\ [](watch.pc = "leave"
            => watch.last = "ended" \/ now >= cfg.max_duration)

\* C29 witness: the latest probe raised, the session is still recording
\* and the monitor sleeps until its next tick.
C29_Witness ==
    /\ watch.last = "raise"
    /\ watch.pc = "sleep"
    /\ watch.wake > now
    /\ rec_state = "RECORDING"
    /\ drive.status = "recording"

\* C30: every step that changes the status of a session is a step of that
\* session's own driving task.
C30_SingleWriter ==
    [][\A r \in SessionRefs :
          SessAfter(r[1], r[2]).status # Sess(r[1], r[2]).status
             => run_session_step(r[1], r[2])]_vars

\* C31: in every reachable state a session that carries an error
\* description has status "error".
C31_ErrorOnlyWithErrorStatus ==
    \A r \in SessionRefs :
        Sess(r[1], r[2]).error # "none" => Sess(r[1], r[2]).status = "error"

\* C32: end_session assigns end_time to a given meeting session at most
\* once, whatever the order of the monitor's end, stop requests and cleanup.
C32_EndTimeSetOnce ==
    \A m \in 1..Len(ms) : ms[m].ended <= 1

\* The outputs analytics.generate_metrics is given.
AnalyticsInputs(s) ==
    {s.transcript, s.diarization, s.topics, s.sentiment, s.summary,
     s.action_items}

\* C33: analytics exist only for a session whose transcription,
\* diarization, topic segmentation, sentiment analysis, summary and action
\* items have each produced an output, real or default; and a diarization
\* result (with the alignment that follows it) only after a transcript.
C33_StagesAfterDependencies ==
    \A r \in SessionRefs :
        LET s == Sess(r[1], r[2]) IN
        /\ s.analytics # "none" => "none" \notin AnalyticsInputs(s)
        /\ s.diarization # "none" => s.transcript # "none"
        /\ s.error = "AttributeError"
             => s.transcript = "full" /\ s.diarization = "real"

\* Analytics were generated from a default diarization and default topics.
C33_Witness ==
    \E r \in SessionRefs :
        LET s == Sess(r[1], r[2]) IN
        /\ s.analytics = "real"
        /\ s.diarization = "default"
        /\ s.action_items # "none"

\* C34: a driving task leaves its wait for the end of the meeting (status
\* "processing") only when the recorder session of its own meeting is
\* ENDED, audio capture is stopped and the meeting has been left.
C34_ProcessingAfterLivePhase ==
    [][\A r \in SessionRefs :
          LET s == Sess(r[1], r[2]) IN
          (s.pc = "wait" /\ SessAfter(r[1], r[2]).pc # "wait")
             => /\ ms[s.meeting_session].state = "ENDED"
                /\ ~ctl[r[1]].recording
                /\ ~ctl[r[1]].in_meeting]_vars

\* One step of a stop request for session id of the current controller:
\* the call of stop_session, or its end_session resuming.
stop_step(id) ==
    \/ stop_session(id)
    \/ \E c \in 1..MaxCalls :
          /\ calls[c].kind = "stop"
          /\ calls[c].id = id
          /\ call_es_resume(c) \/ call_es_left(c)

\* C35: a step of a stop request for session A leaves every other session
\* alone: its status, the state of its meeting session, and the browser
\* its join is running in.
C35_StopActsOnOwnSession ==
    [][\A id \in Ids :
          stop_step(id)
             => \A r \in SessionRefs :
                   LET s == Sess(r[1], r[2]) IN
                   r[2] # id
                      => /\ SessAfter(r[1], r[2]).status = s.status
                         /\ s.meeting_session # 0
                              => ms'[s.meeting_session].state
                                    = ms[s.meeting_session].state
                         /\ s.pc = "join"
                              => ctl'[r[1]].browser = ctl[r[1]].browser]_vars

\* C36: when a stop request for a recording session returns, whatever the
\* monitoring task was doing when it was cancelled (asleep, probing, or
\* itself inside end_session), the meeting session of the stopped session
\* is ENDED, audio capture is stopped, the meeting has been left and the
\* browser is not open.
C36_StopReturnsAfterRelease ==
    [][\A c \in 1..MaxCalls :
          (calls[c].kind = "stop" /\ calls'[c].pc = "idle")
             => LET g == calls[c].g
                    m == Sess(g, calls[c].id).meeting_session
                IN /\ ms'[m].state = "ENDED"
                   /\ ~ctl'[g].recording
                   /\ ~ctl'[g].in_meeting
                   /\ ctl'[g].browser # "open"]_vars

\* C37: for a session id of the registry, the transcript, summary and PDF
\* queries return nothing or the output of the meeting that session was
\* started for, never that of another meeting's stored record.
C37_QueriesReturnOwnData ==
    \A id \in DOMAIN ctl[controller].sessions :
        \A answer \in {get_transcript(id), get_summary(id), get_pdf_path(id)} :
            answer # NotFound => answer.uid = Sess(controller, id).uid

\* C38: in every reachable state a session with status "completed" has its
\* transcript, summary, report path and record id set.
C38_CompletedHasOutputs ==
    \A r \in SessionRefs :
        LET s == Sess(r[1], r[2]) IN
        s.status = "completed"
           => /\ s.transcript # "none"
              /\ s.summary # "none"
              /\ s.pdf_path # "none"
              /\ s.db_record_id # 0

\* A session completed after its save to the meetings table.
C38_Witness ==
    \E r \in SessionRefs :
        LET s == Sess(r[1], r[2]) IN
        /\ s.status = "completed"
        /\ s.pc = "done"
        /\ s.db_record_id \in DOMAIN db
        /\ db[s.db_record_id].uid = s.uid

\* C39: the status snapshot of a session of the registry reports
\* email_sent only when send_summary was called for the session and
\* returned.
C39_EmailSentMeansDelivered ==
    \A id \in DOMAIN ctl[controller].sessions :
        get_session_status(id).email_sent
           => Sess(controller, id).email = "sent"

\* C40: when a session ends in error because the recording could not be
\* started after a join that succeeded, the meeting has been left and the
\* browser is closed.
C40_ErrorPathReleases ==
    [][\A r \in SessionRefs :
          ( /\ Sess(r[1], r[2]).pc = "join"
            /\ SessAfter(r[1], r[2]).status = "error"
            /\ ms'[SessAfter(r[1], r[2]).meeting_session].started )
             => /\ ~ctl'[r[1]].in_meeting
                /\ ctl'[r[1]].browser # "open"]_vars

====
